---- MODULE Spec2Model ----
(***************************************************************************)
(* Model of the uptime monitor: the two sampling scripts                   *)
(* (traceroute_monitor.py, the "monitor", and traceroute.py, the "basic"   *)
(* revision) that parse mtr reports, append packet-loss observations to    *)
(* table traceroute_results of traceroute.db and answer windowed-average   *)
(* and merged-series queries over it.                                      *)
(*                                                                         *)
(* Numbers.  Python floats are modelled as exact rationals <<num, den>>    *)
(* in lowest terms with den > 0; rounding of IEEE doubles is not            *)
(* modelled.  The loss tokens of a report are plain decimal numerals or     *)
(* non-numerals; float() specials (nan, inf, exponents) are outside the     *)
(* token alphabet, so every stored packet_loss is a real number.            *)
(*                                                                         *)
(* Text.  A report is a sequence of lines; a line is the sequence of its    *)
(* whitespace-separated fields (what line.split() returns); the hostname    *)
(* field is a string and the loss field a sequence of characters, so that   *)
(* strip('%') and float() are computed character by character.              *)
(***************************************************************************)
EXTENDS Integers, Sequences, FiniteSets, TLC

VARIABLES store, tableExists, now, clockSteps, pc, idx, lastLog, html,
          pending, signalled, report, parsed, tick

vars == <<store, tableExists, now, clockSteps, pc, idx, lastLog, html,
          pending, signalled, report, parsed, tick>>

(***************************************************************************)
(* Rational arithmetic                                                     *)
(***************************************************************************)
Abs(x) == IF x < 0 THEN -x ELSE x

RECURSIVE GCD(_, _)
GCD(a, b) == IF b = 0 THEN a ELSE GCD(b, a % b)

\* the float n/d, in lowest terms
Frac(n, d) ==
    LET s == IF d < 0 THEN -1 ELSE 1
        g == GCD(Abs(n), Abs(d))
    IN  <<(s * n) \div g, (s * d) \div g>>

FracAdd(x, y) == Frac(x[1] * y[2] + y[1] * x[2], x[2] * y[2])

FracDivInt(x, k) == Frac(x[1], x[2] * k)

FracLeq(x, y) == x[1] * y[2] <= y[1] * x[2]

Zero == Frac(0, 1)

Hundred == Frac(100, 1)

\* Python: 0 <= v <= 100
InRange(v) == FracLeq(Zero, v) /\ FracLeq(v, Hundred)

\* Python: sum(values)
RECURSIVE Sum(_)
Sum(values) ==
    IF values = <<>> THEN Zero ELSE FracAdd(Head(values), Sum(Tail(values)))

\* Python's None
None == <<>>

(***************************************************************************)
(* Text conversions                                                        *)
(***************************************************************************)
DigitVal ==
    ("0" :> 0) @@ ("1" :> 1) @@ ("2" :> 2) @@ ("3" :> 3) @@ ("4" :> 4) @@
    ("5" :> 5) @@ ("6" :> 6) @@ ("7" :> 7) @@ ("8" :> 8) @@ ("9" :> 9)

IsDigit(ch) == ch \in DOMAIN DigitVal

RECURSIVE LStrip(_, _)
LStrip(s, ch) ==
    IF s # <<>> /\ Head(s) = ch THEN LStrip(Tail(s), ch) ELSE s

RECURSIVE RStrip(_, _)
RStrip(s, ch) ==
    IF s # <<>> /\ s[Len(s)] = ch
    THEN RStrip(SubSeq(s, 1, Len(s) - 1), ch)
    ELSE s

\* str.strip(ch): removes the leading and the trailing run of ch
Strip(s, ch) == RStrip(LStrip(s, ch), ch)

RECURSIVE DigitsValue(_)
DigitsValue(ds) ==
    IF ds = <<>> THEN 0
    ELSE 10 * DigitsValue(SubSeq(ds, 1, Len(ds) - 1)) + DigitVal[ds[Len(ds)]]

RECURSIVE Pow10(_)
Pow10(k) == IF k = 0 THEN 1 ELSE 10 * Pow10(k - 1)

ValueError == [ok |-> FALSE, val |-> None]

\* float(s) for a decimal numeral [sign] digits [. digits]; anything else
\* raises ValueError
ParseFloat(s) ==
    LET signed == s # <<>> /\ Head(s) \in {"-", "+"}
        sign   == IF signed /\ Head(s) = "-" THEN -1 ELSE 1
        body   == IF signed THEN Tail(s) ELSE s
        dots   == {i \in 1..Len(body) : body[i] = "."}
        dot    == IF dots = {} THEN Len(body) + 1
                  ELSE CHOOSE i \in dots : \A j \in dots : i <= j
        ip     == SubSeq(body, 1, dot - 1)
        fp     == SubSeq(body, dot + 1, Len(body))
        wellformed ==
            /\ Cardinality(dots) <= 1
            /\ \A i \in 1..Len(ip) : IsDigit(ip[i])
            /\ \A i \in 1..Len(fp) : IsDigit(fp[i])
            /\ Len(ip) + Len(fp) >= 1
    IN  IF wellformed
        THEN [ok  |-> TRUE,
              val |-> Frac(sign * DigitsValue(ip \o fp), Pow10(Len(fp)))]
        ELSE ValueError

\* Python slice seq[k:]
DropFirst(seq, k) == IF Len(seq) <= k THEN <<>> ELSE SubSeq(seq, k + 1, Len(seq))

(***************************************************************************)
(* Trace Parser: run_traceroute after a successful capture                 *)
(***************************************************************************)
UNRESOLVED == "???"

\* the monitor's loop body for one line: the loss appended to packet_loss,
\* or None when the line is skipped
monitor_hop_loss(columns) ==
    IF Len(columns) >= 3
    THEN IF columns[2] = UNRESOLVED
         THEN None
         ELSE LET p == ParseFloat(Strip(columns[3], "%"))
              IN  IF p.ok
                  THEN IF InRange(p.val) THEN p.val ELSE None
                  ELSE None
    ELSE None

\* the basic script's loop body for one line
basic_hop_loss(columns) ==
    IF Len(columns) >= 3
    THEN LET p == ParseFloat(Strip(columns[3], "%"))
         IN  IF p.ok THEN p.val ELSE None
    ELSE None

RECURSIVE collect_monitor(_)
collect_monitor(lines) ==
    IF lines = <<>> THEN <<>>
    ELSE LET v == monitor_hop_loss(Head(lines))
         IN  (IF v = None THEN <<>> ELSE <<v>>) \o collect_monitor(Tail(lines))

RECURSIVE collect_basic(_)
collect_basic(lines) ==
    IF lines = <<>> THEN <<>>
    ELSE LET v == basic_hop_loss(Head(lines))
         IN  (IF v = None THEN <<>> ELSE <<v>>) \o collect_basic(Tail(lines))

\* avg_loss of the monitor for the report text output
monitor_avg_loss(output) ==
    LET lines       == DropFirst(output, 2)
        packet_loss == collect_monitor(DropFirst(lines, 1))
    IN  IF packet_loss # <<>>
        THEN FracDivInt(Sum(packet_loss), Len(packet_loss))
        ELSE None

\* avg_loss of the basic script for the report text output
basic_avg_loss(output) ==
    LET lines       == DropFirst(output, 2)
        packet_loss == collect_basic(DropFirst(lines, 1))
    IN  IF packet_loss # <<>>
        THEN FracDivInt(Sum(packet_loss), Len(packet_loss))
        ELSE None

(***************************************************************************)
(* Observation Store: table traceroute_results of traceroute.db            *)
(***************************************************************************)
connection_names == <<"ISP-A", "ISP-B">>

target_ip == "1.1.1.1"

\* the row written by the INSERT statement of save_to_db
Row(timestamp, connection_name, packet_loss) ==
    [timestamp |-> timestamp, connection_name |-> connection_name,
     target_ip |-> target_ip, packet_loss |-> packet_loss]

RECURSIVE Losses(_)
Losses(rows) ==
    IF rows = <<>> THEN <<>> ELSE <<Head(rows).packet_loss>> \o Losses(Tail(rows))

\* Matching with the boundary excluded: WHERE timestamp > ?
Matching_exclusive(st, time_threshold, connection_name) ==
    LET Test(r) == r.timestamp > time_threshold /\ r.connection_name = connection_name
    IN  SelectSeq(st, Test)

\* WHERE timestamp >= ? AND connection_name = ?
Matching(st, time_threshold, connection_name) ==
    LET Test(r) == r.timestamp >= time_threshold /\ r.connection_name = connection_name
    IN  SelectSeq(st, Test)

\* SELECT AVG(packet_loss): NULL (None) over no rows
SqlAvg(rows) ==
    IF rows = <<>> THEN None ELSE FracDivInt(Sum(Losses(rows)), Len(rows))

\* get_average_packet_loss(time_window, connection_name) evaluated on store
\* content st at time current_time; tbl tells whether the table exists (the
\* query raises sqlite3.Error when it does not)
get_average_packet_loss(st, tbl, current_time, time_window, connection_name) ==
    LET time_threshold == current_time - (time_window * 60)
        result == SqlAvg(Matching(st, time_threshold, connection_name))
    IN  IF ~tbl THEN Zero
        ELSE IF result # None THEN result ELSE Zero

\* ORDER BY timestamp ASC with rows of equal timestamp in reverse rowid order
RECURSIVE InsertByTimestamp_reversed(_, _)
InsertByTimestamp_reversed(sorted, r) ==
    IF sorted = <<>> THEN <<r>>
    ELSE IF Head(sorted).timestamp < r.timestamp
         THEN <<Head(sorted)>> \o InsertByTimestamp_reversed(Tail(sorted), r)
         ELSE <<r>> \o sorted

\* ORDER BY timestamp ASC: rows of equal timestamp keep rowid order
RECURSIVE InsertByTimestamp(_, _)
InsertByTimestamp(sorted, r) ==
    IF sorted = <<>> THEN <<r>>
    ELSE IF Head(sorted).timestamp <= r.timestamp
         THEN <<Head(sorted)>> \o InsertByTimestamp(Tail(sorted), r)
         ELSE <<r>> \o sorted

RECURSIVE OrderByTimestamp(_)
OrderByTimestamp(rows) ==
    IF rows = <<>> THEN <<>>
    ELSE InsertByTimestamp(OrderByTimestamp(SubSeq(rows, 1, Len(rows) - 1)),
                           rows[Len(rows)])

\* data[connection_name]: the rows fetched by the SELECT of
\* get_combined_packet_loss_data
fetch_series(st, one_week_ago, connection_name) ==
    OrderByTimestamp(Matching(st, one_week_ago, connection_name))

EmptyDict == [k \in {} |-> None]

\* merge_rows without the range check on packet_loss
RECURSIVE merge_rows_unfiltered(_, _, _)
merge_rows_unfiltered(combined_data, connection_name, rows) ==
    IF rows = <<>> THEN combined_data
    ELSE LET r   == Head(rows)
             ts  == r.timestamp
             cur == IF ts \in DOMAIN combined_data THEN combined_data[ts] ELSE EmptyDict
             nxt == (ts :> ((connection_name :> r.packet_loss) @@ cur)) @@ combined_data
         IN  merge_rows_unfiltered(nxt, connection_name, Tail(rows))

\* merge_rows keeping the first value of a connection at a timestamp
RECURSIVE merge_rows_keep_first(_, _, _)
merge_rows_keep_first(combined_data, connection_name, rows) ==
    IF rows = <<>> THEN combined_data
    ELSE LET r   == Head(rows)
             ts  == r.timestamp
             cur == IF ts \in DOMAIN combined_data THEN combined_data[ts] ELSE EmptyDict
             nxt == IF InRange(r.packet_loss)
                    THEN (ts :> (cur @@ (connection_name :> r.packet_loss))) @@ combined_data
                    ELSE combined_data
         IN  merge_rows_keep_first(nxt, connection_name, Tail(rows))

\* the merge loop over one connection's rows
RECURSIVE merge_rows(_, _, _)
merge_rows(combined_data, connection_name, rows) ==
    IF rows = <<>> THEN combined_data
    ELSE LET r   == Head(rows)
             ts  == r.timestamp
             cur == IF ts \in DOMAIN combined_data THEN combined_data[ts] ELSE EmptyDict
             nxt == IF InRange(r.packet_loss)
                    THEN (ts :> ((connection_name :> r.packet_loss) @@ cur)) @@ combined_data
                    ELSE combined_data
         IN  merge_rows(nxt, connection_name, Tail(rows))

WEEK_SECONDS == 60 * 60 * 24 * 7

\* combined_data of get_combined_packet_loss_data
combined_data_of(st, current_time, names) ==
    LET one_week_ago == current_time - WEEK_SECONDS
        first == merge_rows(EmptyDict, names[1], fetch_series(st, one_week_ago, names[1]))
    IN  merge_rows(first, names[2], fetch_series(st, one_week_ago, names[2]))

\* sorted(keys)
RECURSIVE Sorted(_)
Sorted(S) ==
    IF S = {} THEN <<>>
    ELSE LET m == CHOOSE x \in S : \A y \in S : x <= y
         IN  <<m>> \o Sorted(S \ {m})

\* sorted_timestamps of get_combined_packet_loss_data
sorted_timestamps_of(st, current_time, names) ==
    Sorted(DOMAIN combined_data_of(st, current_time, names))

\* datetime.fromtimestamp(ts).strftime('%Y-%m-%d %H:%M:%S') in UTC: the day
\* number stands for the calendar date
FormatTime(ts) ==
    [date |-> ts \div 86400, H |-> (ts % 86400) \div 3600,
     M |-> (ts % 3600) \div 60, S |-> ts % 60]

\* DictGet defaulting to zero: dict.get(key, 0)
DictGet_zero(d, key) == IF key \in DOMAIN d THEN d[key] ELSE Zero

\* dict.get(key, None)
DictGet(d, key) == IF key \in DOMAIN d THEN d[key] ELSE None

\* get_combined_packet_loss_data(connection_names): <<times, isp1_losses,
\* isp2_losses>>; the empty lists when the query raises sqlite3.Error
get_combined_packet_loss_data(st, tbl, current_time, names) ==
    LET combined_data     == combined_data_of(st, current_time, names)
        sorted_timestamps == sorted_timestamps_of(st, current_time, names)
        n == Len(sorted_timestamps)
    IN  IF ~tbl THEN <<<<>>, <<>>, <<>>>>
        ELSE <<[i \in 1..n |-> FormatTime(sorted_timestamps[i])],
               [i \in 1..n |-> DictGet(combined_data[sorted_timestamps[i]], names[1])],
               [i \in 1..n |-> DictGet(combined_data[sorted_timestamps[i]], names[2])]>>

(***************************************************************************)
(* Inputs: report texts of the capture collaborator (mtr --report)         *)
(***************************************************************************)
HeaderStart == <<"Start:", "2024-05-01T10:00:00+0000">>

HeaderHost == <<"HOST:", "probe", "Loss%", "Snt", "Last", "Avg">>

LossZero == <<"0", ".", "0", "%">>

LossFive == <<"5", ".", "0", "%">>

LossHundred == <<"1", "0", "0", ".", "0", "%">>

LossOver == <<"1", "5", "0", "%">>

LossNegative == <<"-", "5", ".", "0", "%">>

LossText == <<"a", "b", "c", "%">>

HopLine(hostname, loss_str) == <<"2.|--", hostname, loss_str, "1">>

\* the hop lines reports are built from: resolved and unresolved hosts,
\* in-range, out-of-range and unparseable losses, and a line of two fields
HopLines ==
    { HopLine("10.0.0.1", LossZero), HopLine("10.0.0.1", LossFive),
      HopLine("10.0.0.1", LossOver), HopLine("10.0.0.1", LossNegative),
      HopLine("10.0.0.1", LossText), HopLine(UNRESOLVED, LossHundred),
      <<"2.|--", "10.0.0.1">> }

\* most hop lines of a report (the first hop included)
MaxHops == 5

Bodies == UNION { [1..n -> HopLines] : n \in 0..MaxHops }

\* report texts: truncated headers, and two header lines followed by hops
Reports == {<<>>, <<HeaderStart>>} \cup { <<HeaderStart, HeaderHost>> \o b : b \in Bodies }

FirstHop == HopLine("192.168.1.1", LossFive)

\* the report texts captured in the sampling loops: no hop, a hop without
\* loss, a hop with an impossible loss, two hops of mean 2.5
TickReports ==
    { <<HeaderStart, HeaderHost>>,
      <<HeaderStart, HeaderHost, FirstHop, HopLine("10.0.0.1", LossZero)>>,
      <<HeaderStart, HeaderHost, FirstHop, HopLine("10.0.0.1", LossOver)>>,
      <<HeaderStart, HeaderHost, FirstHop, HopLine("10.0.0.1", LossZero),
        HopLine("10.0.0.1", LossFive)>> }

(***************************************************************************)
(* The sampling loops                                                      *)
(***************************************************************************)
Scripts == {"monitor", "basic"}

\* most rows of the table
MaxRows == 2

\* most sleeps of the two loops together
MaxClockSteps == 1

\* the wall-clock time at which the scripts start
StartTime == 700000

\* seconds that pass during a sleep: the second asked for, or more than a
\* week (the host was suspended)
Delays == {1, WEEK_SECONDS + 1}

\* the windows generate_html asks for, in minutes
Windows == {15, 30, 60, 60 * 24, 60 * 24 * 7}

Unset == <<"unset">>

\* run_traceroute: avg_loss for a capture that ended with returncode and,
\* if zero, printed output; None when subprocess.run raised
run_traceroute(script, raised, returncode, output) ==
    IF raised THEN None
    ELSE IF returncode # 0 THEN None
    ELSE IF script = "monitor" THEN monitor_avg_loss(output)
    ELSE basic_avg_loss(output)

\* the last diagnostic run_traceroute logs
traceroute_log(raised, returncode, avg_loss) ==
    IF raised THEN "exception"
    ELSE IF returncode # 0 THEN "capture_failed"
    ELSE IF avg_loss = None THEN "no_data"
    ELSE "parsed"

\* save_to_db without the early return: a missing loss is stored as 0
save_to_db_zero(st, tbl, db_error, timestamp, connection_name, packet_loss) ==
    IF ~tbl \/ db_error THEN st
    ELSE Append(st, Row(timestamp, connection_name,
                        IF packet_loss = None THEN Zero ELSE packet_loss))

\* save_to_db writing with INSERT OR REPLACE on (connection_name, timestamp)
save_to_db_replace(st, tbl, db_error, timestamp, connection_name, packet_loss) ==
    LET Other(r) == ~(r.connection_name = connection_name /\ r.timestamp = timestamp)
    IN  IF packet_loss = None THEN st
        ELSE IF ~tbl \/ db_error THEN st
        ELSE Append(SelectSeq(st, Other), Row(timestamp, connection_name, packet_loss))

\* save_to_db(connection_name, target_ip, packet_loss) at time timestamp:
\* the table afterwards; db_error tells that sqlite3 raised
save_to_db(st, tbl, db_error, timestamp, connection_name, packet_loss) ==
    IF packet_loss = None THEN st
    ELSE IF ~tbl \/ db_error THEN st
    ELSE Append(st, Row(timestamp, connection_name, packet_loss))

\* the diagnostic save_to_db logs
save_log(tbl, db_error, packet_loss) ==
    IF packet_loss = None THEN "nothing_to_save"
    ELSE IF ~tbl \/ db_error THEN "database_error"
    ELSE "saved"

\* averages_data of generate_html
averages_data_of(st, tbl, current_time, names) ==
    [c \in {names[1], names[2]} |->
        [w \in Windows |-> get_average_packet_loss(st, tbl, current_time, w, c)]]

\* the data generate_html of script p renders into index.html
generate_html(p, st, tbl, current_time, names) ==
    [writer   |-> p,
     averages |-> averages_data_of(st, tbl, current_time, names),
     series   |-> IF p = "monitor"
                  THEN get_combined_packet_loss_data(st, tbl, current_time, names)
                  ELSE None]

\* what a capture can end with: an exception of subprocess.run, a non-zero
\* return code, or return code 0 and a report text
Captures ==
    {[raised |-> TRUE, returncode |-> 0, output |-> <<>>],
     [raised |-> FALSE, returncode |-> 1, output |-> <<>>]}
    \cup {[raised |-> FALSE, returncode |-> 0, output |-> o] : o \in TickReports}

NoLog == [script |-> "none", capture |-> "none", save |-> "none"]

\* a loop that samples the same connection again
loop_next_retry(i) == [pc |-> "sample", idx |-> i]

\* the position after one iteration of "for i in range(2)": the second
\* connection, or the report after the loop
loop_next(i) ==
    IF i = 1 THEN [pc |-> "sample", idx |-> 2] ELSE [pc |-> "report", idx |-> 1]

\* an iteration of "while True" of a script, as the script went through it:
\* attempts, the connections run_traceroute was called for; inserts, the
\* rows save_to_db committed; reports, the number of calls of generate_html
NoTick == [attempts |-> <<>>, inserts |-> <<>>, reports |-> 0]

\* an except clause of save_to_db that lets the error end the script
except_sqlite3_Error_raise(position) == "exited"

\* "except sqlite3.Error as e: logging.error(...)" of save_to_db: the error
\* is logged and the script goes on after the call
except_sqlite3_Error(position) == position

\* the position after save_to_db has logged save
after_save(save, i) ==
    IF save = "database_error" THEN except_sqlite3_Error(loop_next(i).pc)
    ELSE loop_next(i).pc

\* a handler that logs the signal and returns to where the script was
handle_exit_signal_ignore(position) == position

\* handle_exit_signal: sys.exit(0) ends the process wherever it is
handle_exit_signal(position) == "exited"

Init ==
    /\ store = <<>>
    /\ tableExists = FALSE
    /\ now = StartTime
    /\ clockSteps = 0
    /\ pc = [p \in Scripts |-> IF p = "monitor" THEN "start" ELSE "sample"]
    /\ idx = [p \in Scripts |-> 1]
    /\ lastLog = NoLog
    /\ html = None
    /\ pending = [p \in Scripts |-> None]
    /\ signalled = [p \in Scripts |-> FALSE]
    /\ report = <<>>
    /\ parsed = [p \in Scripts |-> Unset]
    /\ tick = [p \in Scripts |-> NoTick]

\* the monitor's CREATE TABLE IF NOT EXISTS before its loop
CreateTable ==
    /\ pc["monitor"] = "start"
    /\ tableExists' = TRUE
    /\ pc' = [pc EXCEPT !["monitor"] = "sample"]
    /\ UNCHANGED <<store, now, clockSteps, idx, lastLog, html, pending, signalled,
                   report, parsed, tick>>

\* one iteration of "for i in range(2)": run_traceroute, then save_to_db up
\* to cursor.execute; the table with the row inserted is the content of the
\* open transaction, not committed yet.  The write lock of another process's
\* open transaction makes sqlite3 raise.
Sample(p) ==
    /\ pc[p] = "sample"
    /\ \E c \in Captures, db_error \in BOOLEAN :
        LET packet_loss == run_traceroute(p, c.raised, c.returncode, c.output)
            capture     == traceroute_log(c.raised, c.returncode, packet_loss)
            locked      == \E q \in Scripts \ {p} : pending[q] # None
            after       == save_to_db(store, tableExists, db_error \/ locked, now,
                                      connection_names[idx[p]], packet_loss)
        IN  IF after # store
            THEN /\ Len(after) <= MaxRows
                 /\ pending' = [pending EXCEPT ![p] =
                                    [table |-> after, capture |-> capture]]
                 /\ lastLog' = [script |-> p, capture |-> capture, save |-> "none"]
                 /\ pc' = [pc EXCEPT ![p] = "commit"]
                 /\ idx' = idx
            ELSE /\ pending' = pending
                 /\ lastLog' = [script  |-> p,
                                capture |-> capture,
                                save    |-> save_log(tableExists, db_error \/ locked,
                                                     packet_loss)]
                 /\ pc' = [pc EXCEPT ![p] = after_save(lastLog'.save, idx[p])]
                 /\ idx' = [idx EXCEPT ![p] = loop_next(idx[p]).idx]
    /\ tick' = [tick EXCEPT ![p].attempts = Append(@, idx[p])]
    /\ UNCHANGED <<store, tableExists, now, clockSteps, html, signalled, report, parsed>>

\* conn.commit() of save_to_db and the end of the iteration; a commit that
\* raises leaves the row out
Commit(p) ==
    /\ pc[p] = "commit"
    /\ \E db_error \in BOOLEAN :
        /\ store' = IF db_error THEN store ELSE pending[p].table
        /\ lastLog' = [script  |-> p,
                       capture |-> pending[p].capture,
                       save    |-> IF db_error THEN "database_error" ELSE "saved"]
        /\ tick' = IF db_error THEN tick
                   ELSE [tick EXCEPT ![p].inserts =
                            Append(@, pending[p].table[Len(pending[p].table)])]
    /\ pending' = [pending EXCEPT ![p] = None]
    /\ pc' = [pc EXCEPT ![p] = after_save(lastLog'.save, idx[p])]
    /\ idx' = [idx EXCEPT ![p] = loop_next(idx[p]).idx]
    /\ UNCHANGED <<tableExists, now, clockSteps, html, signalled, report, parsed>>

\* SIGINT or SIGTERM delivered to script p: the handler exits, the open
\* transaction is rolled back when the connection goes away
Signal(p) ==
    /\ pc[p] \notin {"exited", "stopped"}
    /\ ~signalled[p]
    /\ signalled' = [signalled EXCEPT ![p] = TRUE]
    /\ pc' = [pc EXCEPT ![p] = handle_exit_signal(pc[p])]
    /\ pending' = [pending EXCEPT ![p] = IF pc'[p] = "exited" THEN None ELSE pending[p]]
    /\ UNCHANGED <<store, tableExists, now, clockSteps, idx, lastLog, html, report, parsed, tick>>

\* generate_html(connection_names): reads the table, writes index.html
GenerateHtml(p) ==
    /\ pc[p] = "report"
    /\ html' = generate_html(p, store, tableExists, now, connection_names)
    /\ pc' = [pc EXCEPT ![p] = "sleep"]
    /\ tick' = [tick EXCEPT ![p].reports = @ + 1]
    /\ UNCHANGED <<store, tableExists, now, clockSteps, idx, lastLog, pending, signalled,
                   report, parsed>>

\* time.sleep(1)
Sleep(p) ==
    /\ pc[p] = "sleep"
    /\ clockSteps < MaxClockSteps
    /\ \E d \in Delays : now' = now + d
    /\ clockSteps' = clockSteps + 1
    /\ pc' = [pc EXCEPT ![p] = "sample"]
    /\ tick' = [tick EXCEPT ![p] = NoTick]
    /\ UNCHANGED <<store, tableExists, idx, lastLog, html, pending, signalled,
                   report, parsed>>

Next ==
    \/ CreateTable
    \/ \E p \in Scripts : Sample(p)
    \/ \E p \in Scripts : Commit(p)
    \/ \E p \in Scripts : Signal(p)
    \/ \E p \in Scripts : GenerateHtml(p)
    \/ \E p \in Scripts : Sleep(p)

Spec == Init /\ [][Next]_vars

(***************************************************************************)
(* One script running alone, every call of its loop returning              *)
(***************************************************************************)
InitLoop ==
    /\ store = <<>>
    /\ tableExists = FALSE
    /\ now = StartTime
    /\ clockSteps = 0
    /\ \E runner \in Scripts :
        pc = [p \in Scripts |-> IF p # runner THEN "stopped"
                                ELSE IF p = "monitor" THEN "start" ELSE "sample"]
    /\ idx = [p \in Scripts |-> 1]
    /\ lastLog = NoLog
    /\ html = None
    /\ pending = [p \in Scripts |-> None]
    /\ signalled = [p \in Scripts |-> FALSE]
    /\ report = <<>>
    /\ parsed = [p \in Scripts |-> Unset]
    /\ tick = [p \in Scripts |-> NoTick]

\* what GenerateHtml(p) does to the position of script p; no other step
\* takes a script from the report to the sleep
GenerateHtmlReturns(p) ==
    /\ pc[p] = "report"
    /\ pc' = [pc EXCEPT ![p] = "sleep"]

\* subprocess.run, the sqlite3 calls, the write of index.html and
\* time.sleep return, and the interpreter goes on with the next statement;
\* nothing makes an operator send a signal
Returns ==
    /\ WF_vars(CreateTable)
    /\ \A p \in Scripts :
        /\ WF_vars(Sample(p))
        /\ WF_vars(Commit(p))
        /\ WF_pc(GenerateHtmlReturns(p))
        /\ WF_vars(Sleep(p))

SpecLoop == InitLoop /\ [][Next]_vars /\ Returns

(***************************************************************************)
(* The parser applied to every report text                                 *)
(***************************************************************************)
InitParser ==
    /\ store = <<>>
    /\ tableExists = FALSE
    /\ now = StartTime
    /\ clockSteps = 0
    /\ pc = [p \in Scripts |-> "parse"]
    /\ idx = [p \in Scripts |-> 1]
    /\ lastLog = NoLog
    /\ html = None
    /\ pending = [p \in Scripts |-> None]
    /\ signalled = [p \in Scripts |-> FALSE]
    /\ report \in Reports
    /\ parsed = [p \in Scripts |-> Unset]
    /\ tick = [p \in Scripts |-> NoTick]

\* run_traceroute of script p on the report text
Parse(p) ==
    /\ pc[p] = "parse"
    /\ parsed' = [parsed EXCEPT ![p] = run_traceroute(p, FALSE, 0, report)]
    /\ pc' = [pc EXCEPT ![p] = "parsed"]
    /\ UNCHANGED <<store, tableExists, now, clockSteps, idx, lastLog, html, pending,
                   signalled, report, tick>>

NextParser == \E p \in Scripts : Parse(p)

SpecParser == InitParser /\ [][NextParser]_vars

(***************************************************************************)
(* The report over the history an earlier run left in traceroute.db        *)
(***************************************************************************)
\* most rows of the history
MaxHistory == 3

\* timestamps of the history: older than a week, a week old, a quarter of
\* an hour old, just written
PastTimes ==
    {StartTime - WEEK_SECONDS - 1, StartTime - WEEK_SECONDS, StartTime - 900, StartTime}

\* the losses the two scripts store for the report texts of the loops
StoredLosses ==
    {run_traceroute(p, FALSE, 0, o) : p \in Scripts, o \in TickReports} \ {None}

HistoryRows ==
    {Row(t, c, v) : t \in PastTimes, c \in {connection_names[1], connection_names[2]},
                    v \in StoredLosses}

\* the tables earlier runs of the two scripts can leave behind; time.time()
\* is the wall clock, so rowid order need not be timestamp order
Histories == UNION { [1..n -> HistoryRows] : n \in 0..MaxHistory }

InitQuery ==
    /\ store \in Histories
    /\ tableExists = TRUE
    /\ now = StartTime
    /\ clockSteps = 0
    /\ \E reader \in Scripts :
        pc = [p \in Scripts |-> IF p = reader THEN "report" ELSE "stopped"]
    /\ idx = [p \in Scripts |-> 1]
    /\ lastLog = NoLog
    /\ html = None
    /\ pending = [p \in Scripts |-> None]
    /\ signalled = [p \in Scripts |-> FALSE]
    /\ report = <<>>
    /\ parsed = [p \in Scripts |-> Unset]
    /\ tick = [p \in Scripts |-> NoTick]

\* a further call of generate_html over the same table at the same time
GenerateHtmlAgain(p) ==
    /\ pc[p] = "sleep"
    /\ html' = generate_html(p, store, tableExists, now, connection_names)
    /\ pc' = [pc EXCEPT ![p] = "reported"]
    /\ UNCHANGED <<store, tableExists, now, clockSteps, idx, lastLog, pending, signalled,
                   report, parsed, tick>>

NextQuery ==
    \/ \E p \in Scripts : GenerateHtml(p)
    \/ \E p \in Scripts : GenerateHtmlAgain(p)

SpecQuery == InitQuery /\ [][NextQuery]_vars

(***************************************************************************)
(* Reference definitions for the parser claims                             *)
(***************************************************************************)
\* a line is an accepted hop: at least three fields, a resolved hostname,
\* and a loss field that is a number in [0,100] once '%' is stripped
AcceptedLine(line) ==
    /\ Len(line) >= 3
    /\ line[2] # UNRESOLVED
    /\ ParseFloat(Strip(line[3], "%")).ok
    /\ InRange(ParseFloat(Strip(line[3], "%")).val)

\* positions of the accepted hops: lines 1 and 2 are the header, line 3 is
\* the first hop
AcceptedHops(output) == {i \in 4..Len(output) : AcceptedLine(output[i])}

LossAt(output, i) == ParseFloat(Strip(output[i][3], "%")).val

RECURSIVE SumAt(_, _)
SumAt(output, I) ==
    IF I = {} THEN Zero
    ELSE LET i == CHOOSE j \in I : TRUE
         IN  FracAdd(LossAt(output, i), SumAt(output, I \ {i}))

\* the arithmetic mean of the accepted hops, None when there are none
ReferenceMean(output) ==
    IF AcceptedHops(output) = {} THEN None
    ELSE FracDivInt(SumAt(output, AcceptedHops(output)), Cardinality(AcceptedHops(output)))

\* C2: for every report text, the loss value run_traceroute returns, in
\* either script, is the arithmetic mean of exactly the accepted hops (no
\* header line, not the first hop, three fields or more, resolved hostname,
\* loss a number in [0,100]); all other lines leave the mean unchanged.
C2_ParserEqualsReferenceMean ==
    \A p \in Scripts : parsed[p] # Unset => parsed[p] = ReferenceMean(report)

\* C3: a report with no accepted hop yields None and never the number 0, and
\* a report whose accepted hops all have loss 0 yields the number 0 and not
\* None, in either script.
C3_NoDataIsNeverZero ==
    \A p \in Scripts :
        parsed[p] # Unset =>
            /\ AcceptedHops(report) = {} => parsed[p] = None
            /\ ( /\ AcceptedHops(report) # {}
                 /\ \A i \in AcceptedHops(report) : LossAt(report, i) = Zero )
               => parsed[p] = Zero

\* the two claims restricted to the monitor, which they hold for
MonitorParserEqualsReferenceMean ==
    parsed["monitor"] # Unset => parsed["monitor"] = ReferenceMean(report)

MonitorNoDataIsNeverZero ==
    parsed["monitor"] # Unset =>
        /\ AcceptedHops(report) = {} => parsed["monitor"] = None
        /\ ( /\ AcceptedHops(report) # {}
             /\ \A i \in AcceptedHops(report) : LossAt(report, i) = Zero )
           => parsed["monitor"] = Zero

(***************************************************************************)
(* Reference definitions for the query claims                              *)
(***************************************************************************)
ConnectionSet == {connection_names[1], connection_names[2]}

\* rowids of the rows of connection c not older than since
RowsSince(c, since) ==
    {i \in 1..Len(store) : store[i].connection_name = c /\ store[i].timestamp >= since}

\* rowids of the window of w minutes of connection c
WindowRows(c, w) == RowsSince(c, now - 60 * w)

RECURSIVE SumLoss(_)
SumLoss(I) ==
    IF I = {} THEN Zero
    ELSE LET i == CHOOSE j \in I : TRUE
         IN  FracAdd(store[i].packet_loss, SumLoss(I \ {i}))

MeanLoss(I) == FracDivInt(SumLoss(I), Cardinality(I))

\* the report has been generated from the table as it is
Reported == html # None

\* C5: when no stored observation matches a window, get_average_packet_loss
\* returns its 'no data' result without an error, and that result differs
\* from the result of any non-empty window whose observations all have loss 0.
C5_EmptyWindowDistinctFromZeroLoss ==
    Reported =>
        \A c1 \in ConnectionSet, c2 \in ConnectionSet, w1 \in Windows, w2 \in Windows :
            ( /\ WindowRows(c1, w1) = {}
              /\ WindowRows(c2, w2) # {}
              /\ \A i \in WindowRows(c2, w2) : store[i].packet_loss = Zero )
            => html.averages[c1][w1] # html.averages[c2][w2]

\* C6: get_average_packet_loss(w, c) is the arithmetic mean of packet_loss
\* over exactly the rows of connection c with timestamp >= now - 60*w (the
\* boundary included), whatever rows of other connections or older rows the
\* table holds, every row of the table being scanned.
C6_WindowAverageIsMeanOfWindowRows ==
    Reported =>
        \A c \in ConnectionSet, w \in Windows :
            WindowRows(c, w) # {} => html.averages[c][w] = MeanLoss(WindowRows(c, w))

\* a window with a row on its boundary, an older row of the same connection
\* and a row of the other connection has been averaged
C6_Witness ==
    /\ Reported
    /\ \E c \in ConnectionSet, w \in Windows :
        /\ \E i \in WindowRows(c, w) : store[i].timestamp = now - 60 * w
        /\ \E i \in 1..Len(store) :
            store[i].connection_name = c /\ store[i].timestamp < now - 60 * w
        /\ \E i \in 1..Len(store) : store[i].connection_name # c
        /\ html.averages[c][w] # Zero

\* C9: a stored packet_loss outside [0,100] is discarded when the window
\* average is computed: get_average_packet_loss returns the 'no data' result
\* or a value in [0,100], the mean of the in-range rows of the window.
C9_WindowAverageIgnoresOutOfRange ==
    Reported =>
        \A c \in ConnectionSet, w \in Windows :
            LET inrange == {i \in WindowRows(c, w) : InRange(store[i].packet_loss)}
            IN  /\ InRange(html.averages[c][w])
                /\ inrange # {} => html.averages[c][w] = MeanLoss(inrange)

\* rowids of the range-filtered series of connection c: its rows of the
\* last week with a loss in [0,100]
SeriesRows(c) ==
    {i \in RowsSince(c, now - WEEK_SECONDS) : InRange(store[i].packet_loss)}

\* the distinct timestamps of the two range-filtered series
UnionTimestamps ==
    {store[i].timestamp : i \in SeriesRows(connection_names[1]) \cup SeriesRows(connection_names[2])}

\* the k-th smallest timestamp of the union
Ranked(k) ==
    CHOOSE t \in UnionTimestamps : Cardinality({u \in UnionTimestamps : u < t}) = k - 1

\* the merged series was rendered by the monitor
SeriesReported == Reported /\ html.writer = "monitor"

\* C7: get_combined_packet_loss_data returns three sequences of equal length
\* with one row per distinct timestamp of the union of the two range-filtered
\* series, in ascending timestamp order; a cell holds a value the connection
\* has stored at exactly that timestamp, or None when it has none there,
\* never a fabricated value, and no row has two None cells.
C7_MergedSeriesShape ==
    SeriesReported =>
        LET times == html.series[1]
            cells == [k \in 1..2 |-> html.series[k + 1]]
            n     == Cardinality(UnionTimestamps)
        IN  /\ Len(times) = n /\ Len(cells[1]) = n /\ Len(cells[2]) = n
            /\ \A i \in 1..n :
                /\ times[i] = FormatTime(Ranked(i))
                /\ \A k \in 1..2 :
                    LET at == {j \in SeriesRows(connection_names[k]) :
                                  store[j].timestamp = Ranked(i)}
                    IN  IF at = {} THEN cells[k][i] = None
                        ELSE \E j \in at : cells[k][i] = store[j].packet_loss
                /\ cells[1][i] # None \/ cells[2][i] # None

\* three rows were merged: the first holds a value of the first connection
\* only, the last a value of the second connection only
C7_Witness ==
    /\ SeriesReported
    /\ Len(html.series[1]) = 3
    /\ html.series[2][1] # None /\ html.series[3][1] = None
    /\ html.series[2][3] = None /\ html.series[3][3] # None

\* C8: whatever the table holds, rows with a loss outside [0,100] included,
\* every value of the merged series of a connection is the loss of a row of
\* that connection with that timestamp, not older than the lookback
\* threshold and within [0,100], and the rows are in ascending timestamp
\* order whatever the insertion order was.
C8_SeriesFilteredAndOrdered ==
    SeriesReported =>
        LET ts == sorted_timestamps_of(store, now, connection_names)
        IN  /\ Len(ts) = Len(html.series[1])
            /\ \A i \in 1..Len(ts) : \A j \in 1..Len(ts) : i < j => ts[i] < ts[j]
            /\ \A i \in 1..Len(ts) : \A k \in 1..2 :
                LET v == html.series[k + 1][i]
                IN  v # None =>
                        /\ InRange(v)
                        /\ ts[i] >= now - WEEK_SECONDS
                        /\ \E j \in 1..Len(store) :
                            /\ store[j].connection_name = connection_names[k]
                            /\ store[j].timestamp = ts[i]
                            /\ store[j].packet_loss = v

\* a table with an out-of-range row inside the lookback and rows inserted
\* against timestamp order was merged into a series of two rows
C8_Witness ==
    /\ SeriesReported
    /\ Len(html.series[1]) = 2
    /\ \E i \in 1..Len(store) :
        ~InRange(store[i].packet_loss) /\ store[i].timestamp >= now - WEEK_SECONDS
    /\ \E i \in 1..Len(store) : \E j \in 1..Len(store) :
        i < j /\ store[i].timestamp > store[j].timestamp

(***************************************************************************)
(* Claims about the sampling loops                                         *)
(***************************************************************************)
FailedCapture == {"capture_failed", "exception"}

\* C1: after any sequence of capture-parse-store iterations of either
\* script, every stored observation has a packet_loss that is present and
\* lies in [0,100], and a failed or empty sample has added no row.
C1_StoredLossPresentAndInRange ==
    /\ \A i \in 1..Len(store) :
        store[i].packet_loss # None /\ InRange(store[i].packet_loss)
    /\ lastLog.capture \in FailedCapture \cup {"no_data"} => lastLog.save = "nothing_to_save"

\* the part of C1 the monitor keeps: every row it adds is within [0,100]
MonitorAddsInRangeOnly ==
    [][(Len(store') > Len(store) /\ lastLog'.script = "monitor")
         => InRange(store'[Len(store')].packet_loss)]_vars

\* C4: an iteration whose capture returns a non-success status or raises
\* attempts no insert and leaves the table as it was, so that every window
\* average is what it was before the sample.
C4_CaptureFailureLeavesStore ==
    [][(idx' # idx /\ lastLog'.capture \in FailedCapture) =>
          /\ lastLog'.save = "nothing_to_save"
          /\ store' = store
          /\ \A c \in ConnectionSet, w \in Windows :
                get_average_packet_loss(store', tableExists', now', w, c)
                    = get_average_packet_loss(store, tableExists, now, w, c)]_vars

\* a capture has just failed over a table that holds a row with a loss
C4_Witness ==
    /\ lastLog.capture \in FailedCapture
    /\ lastLog.save = "nothing_to_save"
    /\ \E i \in 1..Len(store) : store[i].packet_loss # Zero

\* the cell of the k-th connection at timestamp t in the merged series a
\* query returns now; Unset when the series has no row at t
SeriesCell(k, t) ==
    LET ts  == sorted_timestamps_of(store, now, connection_names)
        out == get_combined_packet_loss_data(store, tableExists, now, connection_names)
        at  == {i \in 1..Len(ts) : ts[i] = t}
    IN  IF at = {} \/ Len(out[1]) # Len(ts) THEN Unset
        ELSE out[k + 1][CHOOSE i \in at : TRUE]

ConnectionIndex(c) == CHOOSE k \in 1..2 : connection_names[k] = c

\* rowids of the in-range rows of connection c at timestamp t
SameCell(c, t) ==
    {j \in 1..Len(store) : /\ store[j].connection_name = c
                           /\ store[j].timestamp = t
                           /\ InRange(store[j].packet_loss)}

Last(I) == CHOOSE j \in I : \A k \in I : k <= j

\* C10 as stated: once save_to_db has stored an in-range loss for c at
\* timestamp t, a series query whose lookback contains t returns at t the
\* inserted loss, whatever else was inserted, rows of c at t included.
C10_RoundTripAnyDuplicates ==
    \A i \in 1..Len(store) :
        (InRange(store[i].packet_loss) /\ store[i].timestamp >= now - WEEK_SECONDS)
        => SeriesCell(ConnectionIndex(store[i].connection_name), store[i].timestamp)
               = store[i].packet_loss

\* C10 as amended: the range query returns a row with timestamp t and the
\* inserted loss, and the merged series has a row at t whose value for c is
\* the loss of the in-range observation of c at t that was inserted last,
\* which is the inserted loss unless a later insert of c at t replaced it.
C10_RoundTripLastInserted ==
    \A i \in 1..Len(store) :
        (InRange(store[i].packet_loss) /\ store[i].timestamp >= now - WEEK_SECONDS)
        => LET c    == store[i].connection_name
               t    == store[i].timestamp
               rows == fetch_series(store, now - WEEK_SECONDS, c)
           IN  /\ \E k \in 1..Len(rows) :
                    rows[k].timestamp = t /\ rows[k].packet_loss = store[i].packet_loss
               /\ SeriesCell(ConnectionIndex(c), t) = store[Last(SameCell(c, t))].packet_loss

\* two different in-range losses of one connection were stored at one
\* timestamp and the series holds the later one
C10_Witness ==
    \E i \in 1..Len(store) : \E j \in 1..Len(store) :
        /\ i < j
        /\ j \in SameCell(store[i].connection_name, store[i].timestamp)
        /\ i \in SameCell(store[i].connection_name, store[i].timestamp)
        /\ store[i].packet_loss # store[j].packet_loss
        /\ SeriesCell(ConnectionIndex(store[i].connection_name), store[i].timestamp)
               = store[j].packet_loss

\* a step that ends an iteration of the sampling loop of some script
IterationEnds == idx' # idx

\* C11 as stated: every save_to_db call with a loss other than None adds
\* exactly one new row and leaves the existing rows unchanged.
C11_EverySaveAddsOneRow ==
    [][(IterationEnds /\ lastLog'.capture = "parsed") =>
          /\ Len(store') = Len(store) + 1
          /\ SubSeq(store', 1, Len(store)) = store]_vars

\* C11 as amended: the table only ever grows by one row at its end, the
\* rows it held staying as they were (also when the new row has the
\* connection and timestamp of an old one); a save_to_db call with a loss
\* adds exactly one row, with that loss, unless sqlite3 raises, and then adds
\* none; no step updates or deletes a row.
C11_AppendOnlyNoDedup ==
    [][/\ Len(store') >= Len(store)
       /\ Len(store') <= Len(store) + 1
       /\ SubSeq(store', 1, Len(store)) = store
       /\ (IterationEnds /\ lastLog'.capture = "parsed") =>
             /\ lastLog'.save \in {"saved", "database_error"}
             /\ lastLog'.save = "saved" <=> Len(store') = Len(store) + 1
       /\ Len(store') = Len(store) + 1 =>
             /\ lastLog'.save = "saved"
             /\ store'[Len(store')].packet_loss # None
             /\ store'[Len(store')].connection_name = connection_names[idx[lastLog'.script]]
             /\ store'[Len(store')].timestamp <= now]_vars

\* two rows of one connection with one timestamp are both in the table
C11_Witness ==
    /\ lastLog.save = "saved"
    /\ \E i \in 1..Len(store) : \E j \in 1..Len(store) :
        /\ i < j
        /\ store[i].connection_name = store[j].connection_name
        /\ store[i].timestamp = store[j].timestamp

Idle(p) == pc'[p] = pc[p] /\ idx'[p] = idx[p] /\ pending'[p] = pending[p]

\* C13: a stop signal ends the script wherever it is, the open transaction
\* between INSERT and commit included, and leaves the table as it was; the
\* table changes only by the commit of one whole row by a script that has
\* not been signalled; a report is rendered from committed rows only; a
\* script that was signalled takes no further step.
C13_AtomicUnderSignal ==
    [][/\ \A p \in Scripts :
            /\ signalled'[p] => (pc'[p] = "exited" /\ pending'[p] = None)
            /\ (signalled'[p] /\ ~signalled[p]) => store' = store
            /\ signalled[p] =>
                  /\ Idle(p)
                  /\ lastLog' # lastLog => lastLog'.script # p
                  /\ html' # html => html'.writer # p
       /\ store' # store =>
            \E q \in Scripts :
                /\ ~signalled[q] /\ pc[q] = "commit"
                /\ LET r == pending[q].table[Len(pending[q].table)]
                   IN  /\ store' = Append(store, r)
                       /\ r = Row(r.timestamp, connection_names[idx[q]], r.packet_loss)
                       /\ r.packet_loss # None
       /\ html' # html =>
            \E q \in Scripts :
                html' = generate_html(q, store, tableExists, now, connection_names)]_vars

\* a script was stopped between its INSERT and the commit, over a table
\* that holds a row, and the row of the open transaction is not in the table
C13_Witness ==
    \E p \in Scripts :
        /\ signalled[p] /\ pc[p] = "exited"
        /\ lastLog.script = p /\ lastLog.capture = "parsed" /\ lastLog.save = "none"
        /\ Len(store) = 1
        /\ store[1].connection_name # connection_names[idx[p]]

\* the last sample of script p ended without a row
Failed(p) ==
    /\ lastLog.script = p
    /\ lastLog.save \in {"nothing_to_save", "database_error"}

\* C14: no failure ends a script, only a stop signal does; unless a signal
\* stops it, a script whose sample ended without a row (capture failed,
\* nothing parsed, sqlite3 raised) goes on to the end of the iteration,
\* where both connections were sampled and the report was written, and a
\* script that sleeps begins the next iteration (as long as the bound on
\* the clock lets time pass).
C14_NoErrorIsFatal ==
    /\ [][\A p \in Scripts :
            (pc'[p] = "exited" /\ pc[p] # "exited") => (signalled'[p] /\ ~signalled[p])]_vars
    /\ \A p \in Scripts :
        /\ (Failed(p) /\ pc[p] \in {"sample", "report"})
              ~> \/ signalled[p]
                 \/ /\ pc[p] = "sleep"
                    /\ tick[p].attempts = <<1, 2>>
                    /\ tick[p].reports = 1
        /\ (pc[p] = "sleep")
              ~> (signalled[p] \/ pc[p] = "sample" \/ clockSteps = MaxClockSteps)

\* a script whose write to the database failed has written its report and
\* begun the next iteration
C14_Witness ==
    \E p \in Scripts :
        /\ pc[p] = "sample" /\ clockSteps = 1 /\ tick[p] = NoTick
        /\ lastLog.script = p /\ lastLog.save = "database_error"
        /\ html # None /\ html.writer = p

\* the iterations of "while True" the scripts have begun: one for each
\* script that has entered its loop and one for each sleep that has ended
TicksStarted ==
    clockSteps
    + Cardinality({p \in Scripts : pc[p] # "stopped" /\ (p = "basic" \/ tableExists)})

\* the iteration of script p so far: the connections sampled are the
\* configured ones in their order, each once; each connection has at most one
\* row inserted, after its sample; the report is written at most once, after
\* both samples, with no insert left open; every row inserted is in the table
TickShape(p) ==
    LET t == tick[p]
    IN  /\ Len(t.attempts) <= 2
        /\ \A i \in 1..Len(t.attempts) : t.attempts[i] = i
        /\ Len(t.inserts) <= Len(t.attempts)
        /\ \A i \in 1..Len(t.inserts) :
            /\ \E k \in 1..Len(t.attempts) :
                  t.inserts[i].connection_name = connection_names[t.attempts[k]]
            /\ \A j \in 1..Len(t.inserts) :
                  i # j => t.inserts[i].connection_name # t.inserts[j].connection_name
            /\ \E j \in 1..Len(store) : store[j] = t.inserts[i]
        /\ t.reports <= 1
        /\ t.reports = 1 => (t.attempts = <<1, 2>> /\ pending[p] = None)
        /\ pc[p] = "sleep" => t.reports = 1
        /\ pc[p] = "report" => (t.attempts = <<1, 2>> /\ t.reports = 0)

\* the step in which script p writes its report: it reads a table that
\* holds every row the script inserted in this iteration, and the average of
\* a window such a row lies in is the mean of rows that include it
ReportReflectsInserts(p) ==
    tick'[p].reports = tick[p].reports + 1 =>
        /\ html' = generate_html(p, store, tableExists, now, connection_names)
        /\ \A i \in 1..Len(tick[p].inserts) :
            LET r == tick[p].inserts[i]
                c == r.connection_name
            IN  r.timestamp >= now - 60 * 15 =>
                    /\ \E j \in WindowRows(c, 15) : store[j] = r
                    /\ html'.averages[c][15] = MeanLoss(WindowRows(c, 15))

\* C15: in every iteration a script samples each configured connection
\* once, in the configured order, inserts at most one row after each sample
\* and none again after a failed one, and writes the report once after both,
\* from a table that holds the rows inserted in the iteration; the rows of a
\* connection are never more than the iterations the scripts have begun.
C15_TickStructure ==
    /\ [](\A p \in Scripts : TickShape(p))
    /\ [](\A c \in ConnectionSet :
            Cardinality({j \in 1..Len(store) : store[j].connection_name = c})
                <= TicksStarted)
    /\ [][\A p \in Scripts : ReportReflectsInserts(p)]_vars

\* a script has inserted a row for the first connection, failed on the
\* second and written the report
C15_Witness ==
    \E p \in Scripts :
        /\ pc[p] = "sleep"
        /\ tick[p].attempts = <<1, 2>>
        /\ Len(tick[p].inserts) = 1
        /\ tick[p].inserts[1].connection_name = connection_names[1]
        /\ tick[p].reports = 1
        /\ html # None /\ html.writer = p
        /\ html.averages[connection_names[1]][15] = tick[p].inserts[1].packet_loss
        /\ lastLog.script = p /\ lastLog.save \in {"nothing_to_save", "database_error"}

====
